---- MODULE Spec2Model ----
(***************************************************************************)
(* Model of the mocknet harness: MockNet (src/mocknet/MockNet.py) and      *)
(* NodeLogTracker (src/mocknet/NodeTracker.py).                            *)
(*                                                                         *)
(* Text is modelled as sequences of one-character strings, so split('|'),  *)
(* strip() and the substring test `s in msg` are computed, not assumed.    *)
(* Time is abstracted: a bounded wait may time out whenever the awaited    *)
(* future is not finished.                                                 *)
(***************************************************************************)
EXTENDS Integers, Sequences, FiniteSets, TLC

VARIABLES
    node_count,        \* MockNet.node_count
    run_pc,            \* position of the thread executing MockNet.run / clean_up
    node_idx,          \* loop variable of run()'s launch loop
    start_set,         \* MockNet.start_time is not None
    stop_event,        \* MockNet.stop_event.is_set()
    nodes_pids,        \* MockNet.nodes_pids (queue of pids; pid of node i is i)
    nodes,             \* MockNet.nodes (indices whose start_node was submitted)
    test_state,        \* state of test_future
    test_value,        \* result or exception of test_future
    sup_pc,            \* position of each start_node task
    proc,              \* state of each node process: "none", "alive" or "dead"
    emitted,           \* number of stdout lines each supervisor has read
    cur_line,          \* the line a supervisor holds between read and push
    config,            \* config.yml written for each node
    admin_addresses,   \* MockNet._admin_addresses
    public_addresses,  \* MockNet._public_addresses
    mining_addresses,  \* MockNet._mining_addresses
    log_queue,         \* MockNet.log_queue
    node_status,       \* NodeLogTracker.node_status
    abort_requested,   \* NodeLogTracker.abort_requested
    last_tick,         \* how the last call of track ended
    consumed,          \* history: the lines track has returned, in order
    main_outcome,      \* history: what run()'s wait on test_future decided
    run_result,        \* what run() returned or raised
    cu_log,            \* history: the steps clean_up has performed, in order
    spawned_after_stop, \* history: nodes whose Popen ran with stop_event set
    published,         \* history: the pids ever put on nodes_pids
    printed            \* history: the stdout lines read from each node, in order

trackerVars == <<log_queue, node_status, abort_requested, last_tick, consumed>>
runVars == <<node_count, run_pc, node_idx, start_set, stop_event, nodes_pids, nodes,
             main_outcome, run_result, cu_log>>
testVars == <<test_state, test_value>>
supVars == <<sup_pc, proc, emitted, cur_line, config, admin_addresses,
             public_addresses, mining_addresses, spawned_after_stop>>
histVars == <<published, printed>>
vars == <<trackerVars, runVars, testVars, supVars, histVars>>

(***************************************************************************)
(* Bounds of the model.                                                    *)
(***************************************************************************)
MaxNodes == 2   \* node_count ranges over 0..MaxNodes
MaxOut == 2     \* stdout lines read from the node processes, all together
MaxFeed == 3    \* lines fed to log_queue in the tracker-only specification
TimeoutSecs == 2 \* timeout_secs given to MockNet, in seconds

(***************************************************************************)
(* Program constants.                                                      *)
(***************************************************************************)
PORT_COUNT == 5
START_PORT == 10000
LOCALHOST_IP == <<"1","2","7",".","0",".","0",".","1">>

(***************************************************************************)
(* Text.                                                                   *)
(***************************************************************************)
Whitespace == {" ", "\n", "\t"}

Min(S) == CHOOSE x \in S : \A y \in S : x <= y

RECURSIVE Split(_, _)
\* str.split(sep): the pieces between occurrences of sep; always >= 1 piece.
Split(s, sep) ==
    LET at == {i \in 1..Len(s) : s[i] = sep}
    IN  IF at = {} THEN <<s>>
        ELSE <<SubSeq(s, 1, Min(at) - 1)>> \o Split(SubSeq(s, Min(at) + 1, Len(s)), sep)

\* str.strip(): drop leading and trailing whitespace.
Strip(s) ==
    LET keep == {i \in 1..Len(s) : s[i] \notin Whitespace}
    IN  IF keep = {} THEN <<>>
        ELSE SubSeq(s, Min(keep), CHOOSE j \in keep : \A k \in keep : k <= j)

\* `sub in s` for strings.
Contains(sub, s) ==
    \E i \in 0..(Len(s) - Len(sub)) : SubSeq(s, i + 1, i + Len(sub)) = sub

Digit(n) == CASE n = 0 -> "0" [] n = 1 -> "1" [] n = 2 -> "2" [] n = 3 -> "3"
              [] n = 4 -> "4" [] n = 5 -> "5" [] n = 6 -> "6" [] n = 7 -> "7"
              [] n = 8 -> "8" [] n = 9 -> "9"

synced == <<"s","y","n","c","e","d">>
unknown == <<"u","n","k","n","o","w","n">>

(***************************************************************************)
(* NodeLogTracker                                                          *)
(***************************************************************************)
abort_triggers ==
    { <<"<","_","R","e","n","d","e","z","v","o","u","s"," ","o","f"," ","R","P","C"," ",
        "t","h","a","t"," ","t","e","r","m","i","n","a","t","e","d"," ","w","i","t","h",
        " ","(","S","t","a","t","u","s","C","o","d","e",".","U","N","K","N","O","W","N">>,
      <<"T","r","a","c","e","b","a","c","k"," ","(","m","o","s","t"," ","r","e","c","e",
        "n","t"," ","c","a","l","l"," ","l","a","s","t",")",":">> }

\* node_status[node_id] = status, leaving every other entry alone.
SetStatus(ns, node_id, status) ==
    [k \in DOMAIN ns \cup {node_id} |-> IF k = node_id THEN status ELSE ns[k]]

\* A plausible slip: the guard admits every line that has a field 3.
parse_AtLeast4(ns, msg) ==
    LET parts == Split(msg, "|")
    IN  IF Len(parts) >= 4
        THEN SetStatus(ns, Strip(parts[1]), Strip(parts[4]))
        ELSE ns

\* A plausible slip: a status is recorded only for a node not seen before.
parse_FirstWins(ns, msg) ==
    LET parts == Split(msg, "|")
    IN  IF Len(parts) > 4 /\ Strip(parts[1]) \notin DOMAIN ns
        THEN SetStatus(ns, Strip(parts[1]), Strip(parts[4]))
        ELSE ns

\* NodeLogTracker.parse: the node_status after parse(msg). parts[0] and parts[3]
\* of the source are parts[1] and parts[4] here (sequences start at 1).
parse(ns, msg) ==
    LET parts == Split(msg, "|")
    IN  IF Len(parts) > 4
        THEN SetStatus(ns, Strip(parts[1]), Strip(parts[4]))
        ELSE ns

\* NodeLogTracker.get_status
get_status(ns, node_id) == IF node_id \in DOMAIN ns THEN ns[node_id] ELSE unknown

\* NodeLogTracker.synced_count
synced_count(ns) == Cardinality({k \in DOMAIN ns : ns[k] = synced})

\* The loop over abort_triggers in track: abort_requested after seeing msg.
abort_scan(ar, msg) == IF \E s \in abort_triggers : Contains(s, msg) THEN TRUE ELSE ar

\* A plausible slip: raising as soon as a trigger line is seen.
track_outcome_RaiseOnMatch(q, ar) ==
    IF q # <<>>
    THEN IF abort_scan(FALSE, Head(q)) THEN "raised" ELSE "returned"
    ELSE IF ar THEN "raised" ELSE "returned"

\* How one call of track ends, given log_queue and abort_requested at the call:
\* it returns (the line, or '' after an empty poll) or raises ABORT TRIGGERED.
track_outcome(q, ar) ==
    IF q # <<>> THEN "returned"
    ELSE IF ar THEN "raised" ELSE "returned"

\* A plausible slip: a tick that reads the head of the channel and leaves it
\* there.
track_NoPop ==
    /\ last_tick' = track_outcome(log_queue, abort_requested)
    /\ IF log_queue # <<>>
       THEN /\ node_status' = parse(node_status, Head(log_queue))
            /\ abort_requested' = abort_scan(abort_requested, Head(log_queue))
            /\ consumed' = Append(consumed, Head(log_queue))
            /\ UNCHANGED log_queue
       ELSE UNCHANGED <<log_queue, node_status, abort_requested, consumed>>

\* NodeLogTracker.track: one tick.
track ==
    /\ last_tick' = track_outcome(log_queue, abort_requested)
    /\ IF log_queue # <<>>
       THEN /\ log_queue' = Tail(log_queue)
            /\ node_status' = parse(node_status, Head(log_queue))
            /\ abort_requested' = abort_scan(abort_requested, Head(log_queue))
            /\ consumed' = Append(consumed, Head(log_queue))
       ELSE UNCHANGED <<log_queue, node_status, abort_requested, consumed>>

(***************************************************************************)
(* MockNet: ports, addresses, peers                                        *)
(***************************************************************************)
Nodes == 0..(MaxNodes - 1)

RECURSIVE Dec(_)
\* Decimal text of a natural number, as "{}".format prints it.
Dec(n) == IF n < 10 THEN <<Digit(n)>> ELSE Dec(n \div 10) \o <<Digit(n % 10)>>

\* MockNet.calc_port
calc_port(idx, count) == START_PORT + idx * PORT_COUNT + count

\* MockNet.ip_port: "{0}:{1}".format(ip, port)
ip_port(ip, port) == ip \o <<":">> \o Dec(port)

\* A plausible slip: range(node_idx + 1), which lists the node itself as a peer.
get_peers_Inclusive(idx) ==
    [k \in 1..(idx + 1) |-> ip_port(LOCALHOST_IP, calc_port(k - 1, 0))]

\* MockNet.get_peers: one address per num in range(node_idx), in that order.
get_peers(idx) ==
    [k \in 1..idx |-> ip_port(LOCALHOST_IP, calc_port(k - 1, 0))]

\* The config dictionary start_node builds and dumps to config.yml.
node_config(idx) ==
    [ peer_list |-> get_peers(idx),
      mining_enabled |-> FALSE,
      p2p_local_port |-> calc_port(idx, 0),
      p2p_public_port |-> calc_port(idx, 0),
      admin_api_port |-> calc_port(idx, 1),
      public_api_port |-> calc_port(idx, 2),
      mining_api_port |-> calc_port(idx, 3),
      grpc_proxy_port |-> calc_port(idx, 4) ]

(***************************************************************************)
(* Values of the test routine and errors of run()                          *)
(***************************************************************************)
TestValues == {"ok", "None"}       \* what a test routine may return
TestErrors == {"E"}                \* what a test routine may raise on its own
AbortError == "ABORT TRIGGERED"    \* Exception raised by track
BuiltinTimeout == "TimeoutError"   \* raised by run() after the main wait
FuturesTimeout == "concurrent.futures.TimeoutError"  \* raised by Future.result

NoOutcome == [kind |-> "none", value |-> "none"]

\* The stdout lines a node process may print.
NodeOutput ==
    { <<"t"," ","|"," ","v"," ","|"," ","s","y","n","c","e","d"," ","|"," ","t","h","\n">>,
      <<"T","r","a","c","e","b","a","c","k"," ","(","m","o","s","t"," ","r","e","c","e",
        "n","t"," ","c","a","l","l"," ","l","a","s","t",")",":","\n">> }

\* The three lines of the synced scenario: 4 pipe-delimited fields each.
Line4Node0 == <<"N","o","d","e"," ","0","|"," ","i","n","f","o"," ","|"," ","x"," ","|"," ","s","y","n","c","e","d">>
Line4Node1 == <<"N","o","d","e"," ","1","|"," ","i","n","f","o"," ","|"," ","x"," ","|"," ","s","y","n","c","e","d">>
Line4Node2 == <<"N","o","d","e"," ","2","|"," ","i","n","f","o"," ","|"," ","x"," ","|"," ","s","y","n","c","e","d">>

\* The same lines with a fifth field.
Line5Node0 == Line4Node0 \o <<" ","|"," ","t">>
Line5Node1 == Line4Node1 \o <<" ","|"," ","t">>
Line5Node2 == Line4Node2 \o <<" ","|"," ","t">>

\* A six-field line of node 0 with another status.
LineBusyNode0 == <<"N","o","d","e"," ","0","|","i","|","x","|","b","u","s","y","|","t","|","u","\n">>

\* A line holding an abort trigger.
LineTraceback == <<"T","r","a","c","e","b","a","c","k"," ","(","m","o","s","t"," ","r","e","c","e",
                   "n","t"," ","c","a","l","l"," ","l","a","s","t",")",":">>

\* The lines fed to log_queue in the tracker-only specification.
FeedLines == {Line4Node0, Line4Node1, Line4Node2, Line5Node0, Line5Node1, Line5Node2,
              LineBusyNode0, LineTraceback}

(***************************************************************************)
(* Initial state: after MockNet.__init__ and NodeLogTracker.__init__       *)
(***************************************************************************)
Init ==
    /\ node_count \in 0..MaxNodes
    /\ run_pc = "init"
    /\ node_idx = 0
    /\ start_set = FALSE
    /\ stop_event = FALSE
    /\ nodes_pids = <<>>
    /\ nodes = <<>>
    /\ test_state = "none"
    /\ test_value = "none"
    /\ sup_pc = [i \in Nodes |-> "idle"]
    /\ proc = [i \in Nodes |-> "none"]
    /\ emitted = [i \in Nodes |-> 0]
    /\ cur_line = [i \in Nodes |-> <<>>]
    /\ config = [i \in {} |-> node_config(i)]
    /\ admin_addresses = <<>>
    /\ public_addresses = <<>>
    /\ mining_addresses = <<>>
    /\ log_queue = <<>>
    /\ node_status = [k \in {} |-> unknown]
    /\ abort_requested = FALSE
    /\ last_tick = "none"
    /\ consumed = <<>>
    /\ main_outcome = NoOutcome
    /\ run_result = NoOutcome
    /\ cu_log = <<>>
    /\ spawned_after_stop = {}
    /\ published = {}
    /\ printed = [i \in Nodes |-> <<>>]

(***************************************************************************)
(* The test task (test_future): the user's test routine on a pool thread   *)
(***************************************************************************)
\* A plausible slip: the launch loop does not look at the test task.
test_future_running_Always(ts) == TRUE

\* Future.running(): the routine has been picked up by a worker, not finished.
test_future_running(ts) == ts = "running"

\* Future.done()
test_future_done(ts) == ts \in {"returned", "raised"}

\* A worker thread of the pool picks the routine up.
TestStart ==
    /\ test_state = "pending"
    /\ test_state' = "running"
    /\ UNCHANGED <<test_value, trackerVars, runVars, supVars>>
    /\ UNCHANGED histVars

\* The routine calls NodeLogTracker.track; an exception raised by track ends it.
TestTrack ==
    /\ test_state = "running"
    /\ track
    /\ IF last_tick' = "raised"
       THEN test_state' = "raised" /\ test_value' = AbortError
       ELSE UNCHANGED testVars
    /\ UNCHANGED <<runVars, supVars>>
    /\ UNCHANGED histVars

\* The routine returns a value.
TestReturn ==
    /\ test_state = "running"
    /\ \E v \in TestValues : test_value' = v
    /\ test_state' = "returned"
    /\ UNCHANGED <<trackerVars, runVars, supVars>>
    /\ UNCHANGED histVars

\* The routine raises an exception of its own.
TestRaise ==
    /\ test_state = "running"
    /\ \E e \in TestErrors : test_value' = e
    /\ test_state' = "raised"
    /\ UNCHANGED <<trackerVars, runVars, supVars>>
    /\ UNCHANGED histVars

(***************************************************************************)
(* Node processes and kill_process_group                                   *)
(***************************************************************************)
\* A plausible slip: a kill that does nothing.
kill_process_group_Noop(p, pid) == p

\* kill_process_group: SIGKILL to the group of a live process; for a process
\* that is gone os.getpgid raises, which is caught and logged.
kill_process_group(p, pid) ==
    IF p[pid] = "alive" THEN [p EXCEPT ![pid] = "dead"] ELSE p

\* A node process ends on its own, closing its output.
NodeExit(i) ==
    /\ proc[i] = "alive"
    /\ proc' = [proc EXCEPT ![i] = "dead"]
    /\ UNCHANGED <<sup_pc, emitted, cur_line, config, admin_addresses,
                   public_addresses, mining_addresses, spawned_after_stop>>
    /\ UNCHANGED <<trackerVars, runVars, testVars>>
    /\ UNCHANGED histVars

(***************************************************************************)
(* MockNet.start_node: one task per submitted node                         *)
(***************************************************************************)
\* "Node{:2} | {}".format(node_idx, line), for node_idx < 10
log_line(idx, line) == <<"N","o","d","e"," ",Digit(idx)," ","|"," ">> \o line

\* makedirs, the config dictionary, append_api_addresses, config.yml.
SupConfig(i) ==
    /\ sup_pc[i] = "submitted"
    /\ config' = [k \in DOMAIN config \cup {i} |->
                    IF k = i THEN node_config(i) ELSE config[k]]
    /\ admin_addresses' =
         Append(admin_addresses, ip_port(LOCALHOST_IP, node_config(i).admin_api_port))
    /\ public_addresses' =
         Append(public_addresses, ip_port(LOCALHOST_IP, node_config(i).public_api_port))
    /\ mining_addresses' =
         Append(mining_addresses, ip_port(LOCALHOST_IP, node_config(i).mining_api_port))
    /\ sup_pc' = [sup_pc EXCEPT ![i] = "check"]
    /\ UNCHANGED <<proc, emitted, cur_line, spawned_after_stop>>
    /\ UNCHANGED <<trackerVars, runVars, testVars>>
    /\ UNCHANGED histVars

\* `if not stop_event.is_set():` - the task ends here when the flag is set.
SupCheck(i) ==
    /\ sup_pc[i] = "check"
    /\ sup_pc' = [sup_pc EXCEPT ![i] = IF stop_event THEN "done" ELSE "popen"]
    /\ UNCHANGED <<proc, emitted, cur_line, config, admin_addresses,
                   public_addresses, mining_addresses, spawned_after_stop>>
    /\ UNCHANGED <<trackerVars, runVars, testVars>>
    /\ UNCHANGED histVars

\* A plausible slip: the output is read before the pid is published.
after_popen_ReadFirst == "read"

\* The statement of start_node that follows subprocess.Popen: the put of the
\* pid on nodes_pids.
after_popen == "put"

\* subprocess.Popen(..., preexec_fn=os.setsid): the node process starts.
SupPopen(i) ==
    /\ sup_pc[i] = "popen"
    /\ proc' = [proc EXCEPT ![i] = "alive"]
    /\ spawned_after_stop' = IF stop_event THEN spawned_after_stop \cup {i}
                             ELSE spawned_after_stop
    /\ sup_pc' = [sup_pc EXCEPT ![i] = after_popen]
    /\ UNCHANGED <<emitted, cur_line, config, admin_addresses,
                   public_addresses, mining_addresses>>
    /\ UNCHANGED <<trackerVars, runVars, testVars>>
    /\ UNCHANGED histVars

\* A plausible slip: a failed spawn stops the whole run.
SupPopenFails_StopsAll(i) ==
    /\ sup_pc[i] = "popen"
    /\ sup_pc' = [sup_pc EXCEPT ![i] = "failed"]
    /\ stop_event' = TRUE
    /\ UNCHANGED <<proc, emitted, cur_line, config, admin_addresses,
                   public_addresses, mining_addresses, spawned_after_stop>>
    /\ UNCHANGED <<node_count, run_pc, node_idx, start_set, nodes_pids, nodes,
                   main_outcome, run_result, cu_log>>
    /\ UNCHANGED <<trackerVars, testVars>>
    /\ UNCHANGED histVars

\* subprocess.Popen raises: the exception becomes the result of the task.
SupPopenFails(i) ==
    /\ sup_pc[i] = "popen"
    /\ sup_pc' = [sup_pc EXCEPT ![i] = "failed"]
    /\ UNCHANGED <<proc, emitted, cur_line, config, admin_addresses,
                   public_addresses, mining_addresses, spawned_after_stop>>
    /\ UNCHANGED <<trackerVars, runVars, testVars>>
    /\ UNCHANGED histVars

\* self.nodes_pids.put(p.pid)
SupPut(i) ==
    /\ sup_pc[i] = "put"
    /\ nodes_pids' = Append(nodes_pids, i)
    /\ sup_pc' = [sup_pc EXCEPT ![i] = "read"]
    /\ UNCHANGED <<proc, emitted, cur_line, config, admin_addresses,
                   public_addresses, mining_addresses, spawned_after_stop>>
    /\ UNCHANGED <<trackerVars, testVars>>
    /\ UNCHANGED <<node_count, run_pc, node_idx, start_set, stop_event, nodes,
                   main_outcome, run_result, cu_log>>
    /\ published' = published \cup {i}
    /\ UNCHANGED printed

\* The number of lines the supervisors of nodes 0..n have read so far.
RECURSIVE LinesRead(_, _)
LinesRead(e, n) == IF n < 0 THEN 0 ELSE e[n] + LinesRead(e, n - 1)

\* `for line in io.TextIOWrapper(p.stdout)`: the blocking read returns a line
\* the process printed (possibly still buffered in the pipe after its death).
SupReadLine(i) ==
    /\ sup_pc[i] = "read"
    /\ LinesRead(emitted, MaxNodes - 1) < MaxOut
    /\ \E line \in NodeOutput : cur_line' = [cur_line EXCEPT ![i] = line]
    /\ emitted' = [emitted EXCEPT ![i] = @ + 1]
    /\ sup_pc' = [sup_pc EXCEPT ![i] = "push"]
    /\ UNCHANGED <<proc, config, admin_addresses, public_addresses,
                   mining_addresses, spawned_after_stop>>
    /\ UNCHANGED <<trackerVars, runVars, testVars>>
    /\ printed' = [printed EXCEPT ![i] = Append(@, cur_line'[i])]
    /\ UNCHANGED published

\* The blocking read meets end of file: the process is gone.
SupReadEof(i) ==
    /\ sup_pc[i] = "read"
    /\ proc[i] # "alive"
    /\ sup_pc' = [sup_pc EXCEPT ![i] = "final"]
    /\ UNCHANGED <<proc, emitted, cur_line, config, admin_addresses,
                   public_addresses, mining_addresses, spawned_after_stop>>
    /\ UNCHANGED <<trackerVars, runVars, testVars>>
    /\ UNCHANGED histVars

\* The read of p.stdout raises (an I/O error, or bytes that are not UTF-8): the
\* exception becomes the result of the task and the process is left as it is.
SupReadFails(i) ==
    /\ sup_pc[i] = "read"
    /\ sup_pc' = [sup_pc EXCEPT ![i] = "failed"]
    /\ UNCHANGED <<proc, emitted, cur_line, config, admin_addresses,
                   public_addresses, mining_addresses, spawned_after_stop>>
    /\ UNCHANGED <<trackerVars, runVars, testVars>>
    /\ UNCHANGED histVars

\* `if stop_event.is_set(): break` and `self.log_queue.put(s, block=False)`.
SupPush(i) ==
    /\ sup_pc[i] = "push"
    /\ IF stop_event
       THEN /\ sup_pc' = [sup_pc EXCEPT ![i] = "final"]
            /\ UNCHANGED log_queue
       ELSE /\ log_queue' = Append(log_queue, log_line(i, cur_line[i]))
            /\ sup_pc' = [sup_pc EXCEPT ![i] = "read"]
    /\ UNCHANGED <<proc, emitted, cur_line, config, admin_addresses,
                   public_addresses, mining_addresses, spawned_after_stop>>
    /\ UNCHANGED <<node_status, abort_requested, last_tick, consumed>>
    /\ UNCHANGED <<runVars, testVars>>
    /\ UNCHANGED histVars

\* `if stop_event.is_set(): kill_process_group(p.pid)`, then the task ends.
SupFinal(i) ==
    /\ sup_pc[i] = "final"
    /\ proc' = IF stop_event THEN kill_process_group(proc, i) ELSE proc
    /\ sup_pc' = [sup_pc EXCEPT ![i] = "done"]
    /\ UNCHANGED <<emitted, cur_line, config, admin_addresses,
                   public_addresses, mining_addresses, spawned_after_stop>>
    /\ UNCHANGED <<trackerVars, runVars, testVars>>
    /\ UNCHANGED histVars

(***************************************************************************)
(* MockNet.run and the clean_up context manager                            *)
(***************************************************************************)
\* stop_event.clear(), start_time, pool.submit(test_function), enter clean_up.
RunStart ==
    /\ run_pc = "init"
    /\ stop_event' = FALSE
    /\ start_set' = TRUE
    /\ test_state' = "pending"
    /\ node_idx' = 0
    /\ run_pc' = "loop"
    /\ UNCHANGED <<node_count, nodes_pids, nodes, main_outcome, run_result, cu_log>>
    /\ UNCHANGED <<test_value, trackerVars, supVars>>
    /\ UNCHANGED histVars

\* One iteration of `for node_idx in range(self.node_count)`: the node's
\* start_node is submitted only if test_future.running().
RunLaunch ==
    /\ run_pc = "loop"
    /\ node_idx < node_count
    /\ IF test_future_running(test_state)
       THEN /\ nodes' = Append(nodes, node_idx)
            /\ sup_pc' = [sup_pc EXCEPT ![node_idx] = "submitted"]
       ELSE UNCHANGED <<nodes, sup_pc>>
    /\ node_idx' = node_idx + 1
    /\ UNCHANGED <<node_count, run_pc, start_set, stop_event, nodes_pids,
                   main_outcome, run_result, cu_log>>
    /\ UNCHANGED <<proc, emitted, cur_line, config, admin_addresses,
                   public_addresses, mining_addresses, spawned_after_stop>>
    /\ UNCHANGED <<trackerVars, testVars>>
    /\ UNCHANGED histVars

\* The loop is over: remaining_time is computed and the wait is entered.
RunLoopEnd ==
    /\ run_pc = "loop"
    /\ node_idx = node_count
    /\ run_pc' = "wait"
    /\ UNCHANGED <<node_count, node_idx, start_set, stop_event, nodes_pids, nodes,
                   main_outcome, run_result, cu_log>>
    /\ UNCHANGED <<trackerVars, testVars, supVars>>
    /\ UNCHANGED histVars

\* A plausible slip: the result of the test routine is dropped.
wait_outcome_DropsResult(ts, tv) ==
    CASE ts = "returned" -> [kind |-> "result", value |-> "None"]
      [] ts = "raised" -> [kind |-> "exception", value |-> tv]
      [] OTHER -> [kind |-> "timeout", value |-> BuiltinTimeout]

\* `result = test_future.result(remaining_time)` with its except clauses: the
\* value of a finished routine, its exception, or TimeoutError when the wait
\* ends before the routine does.
wait_outcome(ts, tv) ==
    CASE ts = "returned" -> [kind |-> "result", value |-> tv]
      [] ts = "raised" -> [kind |-> "exception", value |-> tv]
      [] OTHER -> [kind |-> "timeout", value |-> BuiltinTimeout]

\* MockNet.uptime: 0 before run() has set start_time, then the time since.
\* The time that passes is that of the `sleep(2)` after each launch.
uptime == IF start_set THEN 2 * Len(nodes) ELSE 0

\* `remaining_time = self.timeout_secs - self.uptime`
remaining_time == TimeoutSecs - uptime

\* A plausible slip: a wait that refuses a negative duration.
result_timeout_error_RejectsNegative(remaining) ==
    IF remaining < 0 THEN "ValueError" ELSE "none"

\* Future.result(timeout): the error raised on account of the timeout value
\* itself. There is none: with a zero or negative timeout the call looks at
\* the future once, without blocking.
result_timeout_error(remaining) == "none"

\* A plausible slip: the pool is shut down before the wait on the test task.
cu_steps_PoolBeforeWait == <<"cu_stop", "cu_drain", "cu_pool", "cu_wait", "cu_chan", "cu_exit">>

\* The statements of clean_up's finally block, in program order.
cu_steps == <<"cu_stop", "cu_drain", "cu_wait", "cu_pool", "cu_chan", "cu_exit">>

\* The statement of the finally block that follows `step`.
cu_after(step) == cu_steps[1 + CHOOSE k \in 1..Len(cu_steps) : cu_steps[k] = step]

\* The wait on test_future ends; the body of the with statement is left and
\* the finally block of clean_up is entered.
RunWait ==
    /\ run_pc = "wait"
    /\ main_outcome' =
         IF result_timeout_error(remaining_time) # "none"
         THEN [kind |-> "exception", value |-> result_timeout_error(remaining_time)]
         ELSE wait_outcome(test_state, test_value)
    /\ run_pc' = cu_steps[1]
    /\ UNCHANGED <<node_count, node_idx, start_set, stop_event, nodes_pids, nodes,
                   run_result, cu_log>>
    /\ UNCHANGED <<trackerVars, testVars, supVars>>
    /\ UNCHANGED histVars

\* clean_up: stop_event.set()
CuStop ==
    /\ run_pc = "cu_stop"
    /\ stop_event' = TRUE
    /\ cu_log' = Append(cu_log, "stop")
    /\ run_pc' = cu_after("cu_stop")
    /\ UNCHANGED <<node_count, node_idx, start_set, nodes_pids, nodes,
                   main_outcome, run_result>>
    /\ UNCHANGED <<trackerVars, testVars, supVars>>
    /\ UNCHANGED histVars

\* clean_up: one turn of `while not pid_queue.empty()`: a pid is taken and its
\* group killed, or the queue is found empty and the loop is left.
CuDrain ==
    /\ run_pc = "cu_drain"
    /\ IF nodes_pids # <<>>
       THEN /\ nodes_pids' = Tail(nodes_pids)
            /\ proc' = kill_process_group(proc, Head(nodes_pids))
            /\ cu_log' = Append(cu_log, "kill")
            /\ UNCHANGED run_pc
       ELSE /\ run_pc' = cu_after("cu_drain")
            /\ UNCHANGED <<nodes_pids, proc, cu_log>>
    /\ UNCHANGED <<node_count, node_idx, start_set, stop_event, nodes,
                   main_outcome, run_result>>
    /\ UNCHANGED <<sup_pc, emitted, cur_line, config, admin_addresses,
                   public_addresses, mining_addresses, spawned_after_stop>>
    /\ UNCHANGED <<trackerVars, testVars>>
    /\ UNCHANGED histVars

\* clean_up: test_future.result(timeout=2). The call returns for a routine that
\* returned, and raises otherwise: the routine's exception, or
\* concurrent.futures.TimeoutError when the routine is not finished in time.
cleanup_wait(ts, tv) ==
    CASE ts = "returned" -> [kind |-> "ok", value |-> "none"]
      [] ts = "raised" -> [kind |-> "raised", value |-> tv]
      [] OTHER -> [kind |-> "raised", value |-> FuturesTimeout]

\* clean_up: the wait on test_future ends. An exception it raises leaves the
\* finally block at once and is what run() raises.
CuWait ==
    /\ run_pc = "cu_wait"
    /\ cu_log' = Append(cu_log, "wait")
    /\ IF cleanup_wait(test_state, test_value).kind = "ok"
       THEN /\ run_pc' = cu_after("cu_wait")
            /\ UNCHANGED run_result
       ELSE /\ run_pc' = "done"
            /\ run_result' = cleanup_wait(test_state, test_value)
    /\ UNCHANGED <<node_count, node_idx, start_set, stop_event, nodes_pids, nodes,
                   main_outcome>>
    /\ UNCHANGED <<trackerVars, testVars, supVars>>
    /\ UNCHANGED histVars

\* clean_up: mocknet.pool.shutdown() returns once every submitted task is over.
CuPool ==
    /\ run_pc = "cu_pool"
    /\ test_future_done(test_state)
    /\ \A i \in Nodes : sup_pc[i] \in {"idle", "done", "failed"}
    /\ cu_log' = Append(cu_log, "pool")
    /\ run_pc' = cu_after("cu_pool")
    /\ UNCHANGED <<node_count, node_idx, start_set, stop_event, nodes_pids, nodes,
                   main_outcome, run_result>>
    /\ UNCHANGED <<trackerVars, testVars, supVars>>
    /\ UNCHANGED histVars

\* clean_up: mocknet.log_queue.cancel_join_thread()
CuChan ==
    /\ run_pc = "cu_chan"
    /\ cu_log' = Append(cu_log, "chan")
    /\ run_pc' = cu_after("cu_chan")
    /\ UNCHANGED <<node_count, node_idx, start_set, stop_event, nodes_pids, nodes,
                   main_outcome, run_result>>
    /\ UNCHANGED <<trackerVars, testVars, supVars>>
    /\ UNCHANGED histVars

\* MockNet.running
running == ~stop_event

\* What run() delivers when the finally block ends without raising: the
\* `return result` or the exception that left the with body.
run_exit(mo) ==
    IF mo.kind = "result" THEN [kind |-> "returned", value |-> mo.value]
    ELSE [kind |-> "raised", value |-> mo.value]

\* A plausible slip: the flag is cleared again when cleanup is over.
CuExit_ClearsFlag ==
    /\ run_pc = "cu_exit"
    /\ run_result' = run_exit(main_outcome)
    /\ run_pc' = "done"
    /\ stop_event' = FALSE
    /\ UNCHANGED <<node_count, node_idx, start_set, nodes_pids, nodes,
                   main_outcome, cu_log>>
    /\ UNCHANGED <<trackerVars, testVars, supVars>>
    /\ UNCHANGED histVars

\* clean_up: the `ps aux` listing, then run() returns or re-raises.
CuExit ==
    /\ run_pc = "cu_exit"
    /\ run_result' = run_exit(main_outcome)
    /\ run_pc' = "done"
    /\ UNCHANGED <<node_count, node_idx, start_set, stop_event, nodes_pids, nodes,
                   main_outcome, cu_log>>
    /\ UNCHANGED <<trackerVars, testVars, supVars>>
    /\ UNCHANGED histVars

(***************************************************************************)
(* Specifications                                                          *)
(***************************************************************************)
Next ==
    \/ RunStart
    \/ RunLaunch
    \/ RunLoopEnd
    \/ RunWait
    \/ CuStop
    \/ CuDrain
    \/ CuWait
    \/ CuPool
    \/ CuChan
    \/ CuExit
    \/ TestStart
    \/ TestTrack
    \/ TestReturn
    \/ TestRaise
    \/ \E i \in Nodes : SupConfig(i)
    \/ \E i \in Nodes : SupCheck(i)
    \/ \E i \in Nodes : SupPopen(i)
    \/ \E i \in Nodes : SupPopenFails(i)
    \/ \E i \in Nodes : SupPut(i)
    \/ \E i \in Nodes : SupReadLine(i)
    \/ \E i \in Nodes : SupReadEof(i)
    \/ \E i \in Nodes : SupReadFails(i)
    \/ \E i \in Nodes : SupPush(i)
    \/ \E i \in Nodes : SupFinal(i)
    \/ \E i \in Nodes : NodeExit(i)

Spec == Init /\ [][Next]_vars

\* The tracker alone, fed synthetic lines: a line is put on log_queue.
Feed ==
    /\ Len(log_queue) + Len(consumed) < MaxFeed
    /\ \E line \in FeedLines : log_queue' = Append(log_queue, line)
    /\ UNCHANGED <<node_status, abort_requested, last_tick, consumed>>
    /\ UNCHANGED <<runVars, testVars, supVars>>
    /\ UNCHANGED histVars

\* The tracker alone: one call of track.
TrackerTick ==
    /\ track
    /\ UNCHANGED <<runVars, testVars, supVars>>
    /\ UNCHANGED histVars

NextTracker == Feed \/ TrackerTick

SpecTracker == Init /\ [][NextTracker]_vars

(***************************************************************************)
(* Properties                                                              *)
(***************************************************************************)
RunOver == run_pc = "done"

InLog(e) == \E k \in 1..Len(cu_log) : cu_log[k] = e

\* C1: no orphans - once run() has returned or raised, no node process
\* spawned by the run is alive.
NoOrphans == RunOver => \A i \in Nodes : proc[i] # "alive"

\* C2: on every exit path of run() the cleanup guard has run exactly once and
\* performed all of its steps: stop flag set, registry drained, test task
\* waited for, pool released, log channel released.
CleanupComplete ==
    RunOver =>
        /\ Cardinality({k \in 1..Len(cu_log) : cu_log[k] = "stop"}) = 1
        /\ stop_event
        /\ nodes_pids = <<>>
        /\ InLog("wait")
        /\ InLog("pool")
        /\ InLog("chan")

TimeoutKinds == {BuiltinTimeout, FuturesTimeout}

\* C3: the error run() raises is the one the main wait decided: a timeout-kind
\* error after a timeout, the test task's exception E after E; cleanup raises
\* nothing of its own and replaces nothing.
ErrorIsMainOutcome ==
    RunOver =>
        /\ main_outcome.kind = "timeout" =>
             (run_result.kind = "raised" /\ run_result.value \in TimeoutKinds)
        /\ main_outcome.kind = "exception" =>
             run_result = [kind |-> "raised", value |-> main_outcome.value]
        /\ main_outcome.kind = "result" => run_result.kind = "returned"

\* C4: when the main wait finds the test task finished with value v, run()
\* ends only by returning exactly v, after every cleanup step; with
\* node_count = 0 no supervisor is ever submitted and the registry stays empty.
ReturnsTestValue ==
    /\ (RunOver /\ main_outcome.kind = "result") =>
          /\ test_state = "returned"
          /\ run_result = [kind |-> "returned", value |-> test_value]
    /\ run_result.kind = "returned" =>
          /\ main_outcome = [kind |-> "result", value |-> test_value]
          /\ cu_log[Len(cu_log)] = "chan"
    /\ node_count = 0 =>
          /\ nodes = <<>>
          /\ nodes_pids = <<>>
          /\ \A i \in Nodes : sup_pc[i] = "idle" /\ proc[i] = "none"

\* C4 witness: the scenario with no nodes and a routine returning "ok".
ReturnsOkWithoutNodes ==
    /\ RunOver
    /\ node_count = 0
    /\ run_result = [kind |-> "returned", value |-> "ok"]
    /\ cu_log = <<"stop", "wait", "pool", "chan">>

\* C5: stop-before-spawn - no node process is created once the stop flag is set.
StopBeforeSpawn == spawned_after_stop = {}

(* ---- NodeLogTracker ---- *)
Last(seq) == seq[Len(seq)]

\* A step in which a call of track is visible.
TickStep == consumed' # consumed \/ last_tick' # last_tick

\* C6: abort delay - a tick that received a line never raises, even when the
\* line holds an abort trigger (which sets the flag); track raises exactly on
\* an empty poll with the abort flag already set; the flag is never reset.
AbortDelay ==
    [][ /\ consumed' # consumed =>
             /\ last_tick' = "returned"
             /\ (\E s \in abort_triggers : Contains(s, Head(log_queue))) => abort_requested'
        /\ (TickStep /\ last_tick' = "raised") =>
             (log_queue = <<>> /\ abort_requested /\ consumed' = consumed)
        /\ (TickStep /\ log_queue = <<>> /\ abort_requested) => last_tick' = "raised"
        /\ abort_requested => abort_requested'
      ]_vars

\* C6 witness: a trigger line was the last line consumed and a later empty
\* poll raised.
AbortRaisedOnEmptyPoll ==
    /\ last_tick = "raised"
    /\ abort_requested
    /\ log_queue = <<>>
    /\ consumed # <<>>
    /\ Last(consumed) = LineTraceback

Fields(msg) == Split(msg, "|")

IsStatusLineFor(msg, n) == Len(Fields(msg)) >= 5 /\ Strip(Fields(msg)[1]) = n

\* The status field of the last status line for n in seq, "unknown" if none.
LastStatus(seq, n) ==
    LET at == {j \in 1..Len(seq) : IsStatusLineFor(seq[j], n)}
    IN  IF at = {} THEN unknown
        ELSE Strip(Fields(seq[CHOOSE j \in at : \A k \in at : k <= j])[4])

NodeIds == {Strip(Fields(l)[1]) : l \in FeedLines} \cup {<<"N","o","d","e"," ","9">>}

\* C8: last-write-wins - get_status(n) is the status field of the last status
\* line for n in arrival order, "unknown" when there is none; lines of other
\* nodes do not change it.
LastWriteWins ==
    \A n \in NodeIds : get_status(node_status, n) = LastStatus(consumed, n)

\* C8 witness: node 0 was synced, then busy, then a line of node 1 arrived.
StatusOverwritten ==
    /\ consumed = <<Line5Node0, LineBusyNode0, Line5Node1>>
    /\ get_status(node_status, <<"N","o","d","e"," ","0">>) = <<"b","u","s","y">>

(* ---- peers ---- *)
\* The p2p address of node k, from the port arithmetic.
P2PAddress(k) == LOCALHOST_IP \o <<":">> \o Dec(10000 + 5 * k)

Rank(e) == CASE e = "stop" -> 1 [] e = "kill" -> 2 [] e = "wait" -> 3
             [] e = "pool" -> 4 [] e = "chan" -> 5

\* C10: the cleanup steps happen in a fixed order in every execution: the
\* stop flag is set first, every kill of a tracked process comes after it and
\* before the wait on the test task, the kill loop is left only on finding
\* the registry empty, the wait precedes the pool release and the pool
\* release precedes the channel release; no later step happens without the
\* earlier ones.
CleanupOrder ==
    /\ [](/\ \A a, b \in 1..Len(cu_log) :
               a < b => /\ Rank(cu_log[a]) <= Rank(cu_log[b])
                        /\ Rank(cu_log[a]) = Rank(cu_log[b]) => cu_log[a] = "kill"
          /\ cu_log # <<>> => (cu_log[1] = "stop" /\ stop_event)
          /\ InLog("pool") => InLog("wait")
          /\ InLog("chan") => InLog("pool"))
    /\ [][ /\ (InLog("kill")' /\ cu_log' # cu_log /\ Last(cu_log') = "kill") =>
                (nodes_pids # <<>> /\ nodes_pids' = Tail(nodes_pids)
                   /\ proc'[Head(nodes_pids)] # "alive")
           /\ (InLog("wait")' /\ ~InLog("wait")) =>
                (\E k \in 1..Len(cu_log) : cu_log' = Append(cu_log, "wait"))
           /\ (run_pc = "cu_drain" /\ run_pc' # "cu_drain") =>
                (nodes_pids = <<>> /\ ~InLog("wait"))
         ]_vars

\* C10 witness: a cleanup that killed a tracked process and went through
\* every step.
FullCleanupWithKill ==
    /\ Len(cu_log) >= 5
    /\ cu_log[2] = "kill"
    /\ Last(cu_log) = "chan"
    /\ \E i \in Nodes : proc[i] = "dead"

ProgramStep ==
    \/ RunStart \/ RunLaunch \/ RunLoopEnd \/ RunWait
    \/ CuStop \/ CuDrain \/ CuWait \/ CuPool \/ CuChan \/ CuExit
    \/ TestStart
    \/ \E i \in Nodes : \/ SupConfig(i) \/ SupCheck(i) \/ SupPopen(i) \/ SupPut(i)
                         \/ SupReadEof(i) \/ SupPush(i) \/ SupFinal(i)

\* C13: run() always terminates - as long as run() has neither returned nor
\* raised, the program has a step to take whatever the test routine and the
\* node processes do (a routine that never ends, a node that prints nothing),
\* so cleanup never blocks forever on a supervisor or on the test task.
NeverBlocked == RunOver \/ ENABLED ProgramStep

(* ---- pid registry and log channel ---- *)
\* The elements of a sequence.
Range(seq) == {seq[k] : k \in 1..Len(seq)}

\* msg is a line pushed by the supervisor of node i.
IsLineOfNode(msg, i) ==
    /\ Len(msg) >= Len(log_line(i, <<>>))
    /\ SubSeq(msg, 1, Len(log_line(i, <<>>))) = log_line(i, <<>>)

\* C14: publish-before-consume - a supervisor has put the pid of its process
\* in the registry before it reads or pushes any line of it: whenever a line
\* of node i was read, is in the log channel or was taken from it, node i's
\* pid has been published, and a published pid is still in the registry or
\* was drained by cleanup.
PublishBeforeConsume ==
    \A i \in Nodes :
        /\ ( \/ emitted[i] > 0
             \/ sup_pc[i] \in {"read", "push", "final"}
             \/ \E k \in 1..Len(log_queue) : IsLineOfNode(log_queue[k], i)
             \/ \E k \in 1..Len(consumed) : IsLineOfNode(consumed[k], i) )
            => i \in published
        /\ i \in published =>
              /\ proc[i] # "none"
              /\ i \in Range(nodes_pids) \/ (stop_event /\ InLog("kill"))

\* C14 witness: node 0's process died right after the spawn; its pid is in the
\* registry and a line it had printed is in the log channel.
LineOfPublishedDeadNode ==
    /\ proc[0] = "dead"
    /\ nodes_pids = <<0>>
    /\ log_queue # <<>>
    /\ IsLineOfNode(log_queue[1], 0)
    /\ ~stop_event

(* ---- supervisor and the stop flag ---- *)
\* C15: a supervisor checks the stop flag before each push - a line whose
\* check finds the flag set is not pushed and ends the streaming, a line whose
\* check finds it clear is pushed; a supervisor that ends its streaming (end
\* of output, or stop observed) with the flag set kills its process group
\* before its task ends.
StopCheckedBeforePush ==
    [][ \A i \in Nodes :
             /\ (sup_pc[i] = "push" /\ sup_pc'[i] # "push") =>
                   IF stop_event
                   THEN log_queue' = log_queue /\ sup_pc'[i] = "final"
                   ELSE /\ log_queue' = Append(log_queue, log_line(i, cur_line[i]))
                        /\ sup_pc'[i] = "read"
             /\ (sup_pc'[i] = "final" /\ sup_pc[i] # "final") =>
                   \/ sup_pc[i] = "push" /\ stop_event
                   \/ sup_pc[i] = "read" /\ proc[i] # "alive"
             /\ (sup_pc[i] = "final" /\ sup_pc'[i] # "final") =>
                   /\ sup_pc'[i] = "done"
                   /\ stop_event => proc'[i] # "alive"
      ]_vars

\* C15 witness: the supervisor of node 0 read a line, found the flag set, did
\* not push the line and ended with the process dead, its pid never drained.
LineDroppedAndKilled ==
    /\ stop_event
    /\ sup_pc[0] = "done"
    /\ emitted[0] = 1
    /\ log_queue = <<>> /\ consumed = <<>>
    /\ nodes_pids = <<0>>
    /\ proc[0] = "dead"

\* The lines of node i in a sequence of channel messages, in their order.
LinesOfNode(seq, i) == SelectSeq(seq, LAMBDA m : IsLineOfNode(m, i))

\* What the supervisor of node i makes of the lines it has read, in order.
Formatted(i) == [k \in 1..Len(printed[i]) |-> log_line(i, printed[i][k])]

IsPrefix(a, b) == Len(a) <= Len(b) /\ SubSeq(b, 1, Len(a)) = a

\* C16: with the supervisors pushing concurrently and one monitor popping,
\* the lines of node i that track() has returned, followed by those still in
\* the channel, are an initial part of node i's output in the order the node
\* printed it: no line is returned twice and none overtakes an earlier line of
\* the same node; every message in the channel is a line of some node.
ConsumedInOrder ==
    /\ \A i \in Nodes :
          IsPrefix(LinesOfNode(consumed \o log_queue, i), Formatted(i))
    /\ \A k \in 1..Len(consumed \o log_queue) :
          \E i \in Nodes : IsLineOfNode((consumed \o log_queue)[k], i)

\* C16 witness: node 0 printed two different lines and track() returned both,
\* in that order.
TwoLinesOfNode0Consumed ==
    /\ Len(printed[0]) = 2
    /\ printed[0][1] # printed[0][2]
    /\ consumed = <<log_line(0, printed[0][1]), log_line(0, printed[0][2])>>
    /\ log_queue = <<>>

(* ---- address lists ---- *)
\* C17: the admin, public and mining address lists hold one entry per started
\* supervisor, in node start order - position k of each list is the address
\* of the k-th node submitted - in every interleaving of the supervisors.
AddressesInStartOrder ==
    /\ Len(admin_addresses) <= Len(nodes)
    /\ Len(public_addresses) = Len(admin_addresses)
    /\ Len(mining_addresses) = Len(admin_addresses)
    /\ \A k \in 1..Len(admin_addresses) :
          /\ admin_addresses[k] = ip_port(LOCALHOST_IP, calc_port(nodes[k], 1))
          /\ public_addresses[k] = ip_port(LOCALHOST_IP, calc_port(nodes[k], 2))
          /\ mining_addresses[k] = ip_port(LOCALHOST_IP, calc_port(nodes[k], 3))

(* ---- supervisor failures ---- *)
\* C18: an error raised inside a supervisor is surfaced by run() - when a
\* supervisor task has failed with a spawn or I/O error, run() does not return
\* a value as if nothing had failed.
SupervisorErrorSurfaced ==
    (RunOver /\ \E i \in Nodes : sup_pc[i] = "failed") =>
        run_result.kind # "returned"

\* C19: sibling isolation - the step in which a supervisor fails with a spawn
\* or I/O error changes nothing but that supervisor's own task: the stop flag,
\* the other nodes' processes and supervisors, the launch loop and the
\* registry stay as they are; the stop flag is set by cleanup alone, and the
\* launch loop can take its next turn whatever has failed.
SiblingIsolation ==
    /\ [][ /\ \A i \in Nodes :
                (sup_pc'[i] = "failed" /\ sup_pc[i] # "failed") =>
                    /\ sup_pc[i] \in {"popen", "read"}
                    /\ stop_event' = stop_event
                    /\ proc' = proc
                    /\ \A j \in Nodes \ {i} : sup_pc'[j] = sup_pc[j]
                    /\ UNCHANGED <<run_pc, node_idx, nodes, nodes_pids, log_queue>>
           /\ (stop_event' /\ ~stop_event) => (run_pc = "cu_stop" /\ run_pc' # "cu_stop")
         ]_vars
    /\ []((run_pc = "loop" /\ node_idx < node_count) => ENABLED RunLaunch)

\* C19 witness: node 0's supervisor has failed; node 1 was launched after it
\* and its process runs, the stop flag being clear.
SiblingRunsAfterFailure ==
    /\ sup_pc[0] = "failed"
    /\ sup_pc[1] = "read"
    /\ proc[1] = "alive"
    /\ ~stop_event
    /\ run_pc \in {"loop", "wait"}

(* ---- stop flag ---- *)
\* C20: the stop flag is one-way within a run - once set it is never reset,
\* it is set by the first statement of cleanup and by nothing else, so
\* `running` is true from the start of run() until cleanup begins and false
\* from cleanup's first statement on.
StopFlagOneWay ==
    /\ [][ /\ stop_event => stop_event'
           /\ ~running => ~running'
           /\ (running /\ ~running') =>
                 (run_pc = "cu_stop" /\ cu_log = <<>> /\ cu_log' = <<"stop">>)
         ]_vars
    /\ [](/\ run_pc \in {"loop", "wait", "cu_stop"} => running
          /\ run_pc \in {"cu_drain", "cu_wait", "cu_pool", "cu_chan", "cu_exit", "done"}
                => ~running)

\* C20 witness: run() is over, the flag is still set, and a supervisor
\* submitted before cleanup has seen it and ended without spawning.
StoppedForGood ==
    /\ RunOver
    /\ ~running
    /\ \E i \in Nodes : sup_pc[i] = "done" /\ proc[i] = "none"

====
